---------------------------- MODULE Spec2Model ----------------------------
(***************************************************************************)
(* A model of the NarInfo parser of src/src/lib.rs.                        *)
(*                                                                         *)
(* A Rust string is a sequence of characters, each character a one-letter  *)
(* TLA+ string.  A u64 is its decimal expansion without leading zeros (a   *)
(* sequence of digit characters), so that the 64-bit bound of parse::<u64> *)
(* is the real one.  The four functions of `impl NarInfo` are the four     *)
(* actions; the initial state draws the function that is called and its    *)
(* arguments, the action applies it and stores what it returns.            *)
(***************************************************************************)
EXTENDS Naturals, Sequences, FiniteSets

VARIABLES
    pc,      \* "call" before the function runs, "done" after it
    fn,      \* the function that is called
    key,     \* the `key` argument of parse_str_no_spaces / parse_u64
    arg,     \* the `line` of parse_line, the `remainder` of the two decoders
    nar,     \* the document of parse_string, as the sequence of its lines
    result   \* what the call produced

vars == <<pc, fn, key, arg, nar, result>>

---------------------------------------------------------------------------
(* Bounds of the input space.                                              *)

\* longest free text appended to a head (a key, "key:", "key: ", a numeral)
MaxLen == 3

\* most lines removed from the complete document
MaxMissing == 2

---------------------------------------------------------------------------
(* Characters and keys.                                                    *)

Alphabet == {":", " ", "\t", "x", "0", "6", "+", "-"}

\* char::is_whitespace, restricted to the alphabet (used by str::trim)
White_Space == {" ", "\t"}

Digits == {"0", "1", "2", "3", "4", "5", "6", "7", "8", "9"}

K_StorePath ==
    <<"S", "t", "o", "r", "e", "P", "a", "t", "h">>
K_URL ==
    <<"U", "R", "L">>
K_Compression ==
    <<"C", "o", "m", "p", "r", "e", "s", "s", "i", "o", "n">>
K_FileHash ==
    <<"F", "i", "l", "e", "H", "a", "s", "h">>
K_FileSize ==
    <<"F", "i", "l", "e", "S", "i", "z", "e">>
K_NarHash ==
    <<"N", "a", "r", "H", "a", "s", "h">>
K_NarSize ==
    <<"N", "a", "r", "S", "i", "z", "e">>
K_References ==
    <<"R", "e", "f", "e", "r", "e", "n", "c", "e", "s">>
K_Deriver ==
    <<"D", "e", "r", "i", "v", "e", "r">>
K_Sig ==
    <<"S", "i", "g">>
K_compression ==
    <<"c", "o", "m", "p", "r", "e", "s", "s", "i", "o", "n">>
K_FooStr ==
    <<"F", "o", "o", "S", "t", "r">>
K_FooSize ==
    <<"F", "o", "o", "S", "i", "z", "e">>

\* u64::MAX = 2^64 - 1
U64_MAX ==
    <<"1", "8", "4", "4", "6", "7", "4", "4", "0", "7", "3", "7", "0", "9",
      "5", "5", "1", "6", "1", "5">>

\* u64::MAX / 10
Stem19 ==
    <<"1", "8", "4", "4", "6", "7", "4", "4", "0", "7", "3", "7", "0", "9",
      "5", "5", "1", "6", "1">>

---------------------------------------------------------------------------
(* Values of the program's types.                                          *)

Ok(x) == [is |-> "Ok", v |-> x]

Err(e) == [is |-> "Err", v |-> e]

\* unwinding out of the call: no value is returned
Panic == [is |-> "Panic", v |-> [variant |-> "not yet implemented"]]

\* no call has returned yet
NoResult == [is |-> "None", v |-> [variant |-> "None"]]

\* enum ParseErr
LineCorruptNoColon(line) == [variant |-> "LineCorruptNoColon", line |-> line]

LineUnknownKey(k) == [variant |-> "LineUnknownKey", key |-> k]

InvalidU64(k, e) == [variant |-> "InvalidU64", key |-> k, error |-> e]

UnexpectedSpace(k, position) ==
    [variant |-> "UnexpectedSpace", key |-> k, position |-> position]

\* std::num::ParseIntError: it holds an IntErrorKind and nothing else
ParseIntError(kind) == [kind |-> kind]

\* enum NarInfoDatum, the three variants parse_line builds
Compression(s) == [variant |-> "Compression", val |-> s]

FileSize(n) == [variant |-> "FileSize", val |-> n]

NarSize(n) == [variant |-> "NarSize", val |-> n]

---------------------------------------------------------------------------
(* The string functions of the standard library the parser calls.          *)

\* s[a..b], empty when a > b
Slice(s, a, b) == IF a > b THEN <<>> ELSE SubSeq(s, a, b)

\* the 1-based indices of s that hold the character c
Places(s, c) == {i \in 1..Len(s) : s[i] = c}

Min(S) == CHOOSE i \in S : \A j \in S : i <= j

Max(S) == CHOOSE i \in S : \A j \in S : j <= i

\* str::find(char): the 0-based offset of the first c, or "None"
find(s, c) ==
    IF Places(s, c) = {} THEN [is |-> "None"]
    ELSE [is |-> "Some", v |-> Min(Places(s, c)) - 1]

\* a split that takes a line with no colon as a key with an empty value,
\* as `line.split_once(":").unwrap_or((line, ""))` would
split_once_or_whole(s) ==
    IF Places(s, ":") = {} THEN [is |-> "Some", key |-> s, remainder |-> <<>>]
    ELSE LET i == Min(Places(s, ":"))
         IN  [is |-> "Some",
              key |-> Slice(s, 1, i - 1),
              remainder |-> Slice(s, i + 1, Len(s))]

\* str::split_once(":"): the text before and after the first colon
split_once(s) ==
    IF Places(s, ":") = {} THEN [is |-> "None"]
    ELSE LET i == Min(Places(s, ":"))
         IN  [is |-> "Some",
              key |-> Slice(s, 1, i - 1),
              remainder |-> Slice(s, i + 1, Len(s))]

\* str::trim: without the leading and the trailing whitespace
trim(s) ==
    LET keep == {i \in 1..Len(s) : s[i] \notin White_Space}
    IN  IF keep = {} THEN <<>> ELSE SubSeq(s, Min(keep), Max(keep))

---------------------------------------------------------------------------
(* str::parse::<u64>, as core::num does it: an optional '+', then digits   *)
(* folded left to right with checked_mul and checked_add.                  *)

DigitVal(c) ==
    CASE c = "0" -> 0 [] c = "1" -> 1 [] c = "2" -> 2 [] c = "3" -> 3
      [] c = "4" -> 4 [] c = "5" -> 5 [] c = "6" -> 6 [] c = "7" -> 7
      [] c = "8" -> 8 [] c = "9" -> 9

\* a > b for two decimal expansions without leading zeros
Greater(a, b) ==
    \/ Len(a) > Len(b)
    \/ /\ Len(a) = Len(b)
       /\ \E i \in 1..Len(a) :
            /\ DigitVal(a[i]) > DigitVal(b[i])
            /\ \A j \in 1..(i - 1) : a[j] = b[j]

Zero == <<"0">>

\* u64::checked_mul(10)
checked_mul10(r) ==
    LET p == IF r = Zero THEN Zero ELSE Append(r, "0")
    IN  IF Greater(p, U64_MAX) THEN [is |-> "None"] ELSE [is |-> "Some", v |-> p]

\* u64::checked_add(x) for a digit x and an r that checked_mul10 returned
checked_add(r, x) ==
    LET s == Append(Slice(r, 1, Len(r) - 1), x)
    IN  IF Greater(s, U64_MAX) THEN [is |-> "None"] ELSE [is |-> "Some", v |-> s]

RECURSIVE run_checked_loop(_, _)
run_checked_loop(digits, r) ==
    IF digits = <<>> THEN Ok(r)
    ELSE LET c == Head(digits)
             mul == checked_mul10(r)
         IN  IF c \notin Digits THEN Err(ParseIntError("InvalidDigit"))
             ELSE IF mul.is = "None" THEN Err(ParseIntError("PosOverflow"))
             ELSE LET sum == checked_add(mul.v, c)
                  IN  IF sum.is = "None"
                      THEN Err(ParseIntError("PosOverflow"))
                      ELSE run_checked_loop(Tail(digits), sum.v)

from_str_u64(src) ==
    IF src = <<>> THEN Err(ParseIntError("Empty"))
    ELSE IF Len(src) = 1 /\ src[1] \in {"+", "-"}
         THEN Err(ParseIntError("InvalidDigit"))
    ELSE run_checked_loop(IF src[1] = "+" THEN Tail(src) ELSE src, Zero)

---------------------------------------------------------------------------
(* impl NarInfo                                                            *)

parse_str_no_spaces(k, remainder) ==
    LET position == find(remainder, " ")
    IN  IF position.is = "Some"
        THEN Err(UnexpectedSpace(k, position.v))
        ELSE Ok(remainder)

parse_u64(k, remainder) ==
    LET r == from_str_u64(remainder)
    IN  IF r.is = "Ok" THEN r ELSE Err(InvalidU64(k, r.v))

parse_line(line) ==
    LET split == split_once(line)
    IN  IF split.is = "None" THEN Err(LineCorruptNoColon(line))
        ELSE LET k == split.key
                 remainder == trim(split.remainder)
             IN  IF k = K_Compression
                 THEN LET s == parse_str_no_spaces(k, remainder)
                      IN  IF s.is = "Ok" THEN Ok(Compression(s.v)) ELSE s
                 ELSE IF k = K_FileSize
                 THEN LET n == parse_u64(k, remainder)
                      IN  IF n.is = "Ok" THEN Ok(FileSize(n.v)) ELSE n
                 ELSE IF k = K_NarSize
                 THEN LET n == parse_u64(k, remainder)
                      IN  IF n.is = "Ok" THEN Ok(NarSize(n.v)) ELSE n
                 ELSE Err(LineUnknownKey(k))

\* the body is todo!(): it unwinds whatever the document is
parse_string(doc) == Panic

---------------------------------------------------------------------------
(* The inputs.                                                             *)

\* the key vocabulary of the NarInfo format: the fields of struct NarInfo
FieldKeys ==
    {K_StorePath, K_URL, K_Compression, K_FileHash, K_FileSize, K_NarHash,
     K_NarSize, K_References, K_Deriver, K_Sig}

Texts == UNION {[1..n -> Alphabet] : n \in 0..MaxLen}

Numerals == {Stem19, U64_MAX, <<"+">> \o U64_MAX}

Prefixes == FieldKeys \cup {<<>>, K_compression}

Heads ==
    Prefixes
      \cup {p \o <<":">> : p \in Prefixes}
      \cup {p \o <<":", " ">> : p \in Prefixes}
      \cup {p \o <<":", " ">> \o n : p \in {K_FileSize, K_NarSize}, n \in Numerals}

Lines == {h \o t : h \in Heads, t \in Texts}

Remainders == Texts \cup {n \o t : n \in Numerals, t \in Texts}

\* the complete document: one line for each field, in the order of the struct
FullDoc ==
    << K_StorePath \o <<":", " ", "x">>,
       K_URL \o <<":", " ", "x", "x">>,
       K_Compression \o <<":", " ", "x">>,
       K_FileHash \o <<":", " ", "6", "x">>,
       K_FileSize \o <<":", " ", "6">>,
       K_NarHash \o <<":", " ", "x", "6">>,
       K_NarSize \o <<":", " ", "6", "0">>,
       K_References \o <<":", " ", "x", " ", "6">>,
       K_Deriver \o <<":", " ", "x", "x", "x">>,
       K_Sig \o <<":", " ", "6", "6">> >>

\* lines put into a document: a second FileSize, a second Sig, a line with no
\* colon, a line with an integer that does not decode
ExtraLines ==
    { K_FileSize \o <<":", " ", "0">>,
      K_Sig \o <<":", " ", "x">>,
      <<"x", " ", "x">>,
      K_NarSize \o <<":", " ", "x">> }

\* s without the places of `drop`
RECURSIVE Without(_, _, _)
Without(s, drop, i) ==
    IF i > Len(s) THEN <<>>
    ELSE (IF i \in drop THEN <<>> ELSE <<s[i]>>) \o Without(s, drop, i + 1)

\* s with e put after its first p elements
InsertAt(s, e, p) == Slice(s, 1, p) \o <<e>> \o Slice(s, p + 1, Len(s))

Shortened ==
    {Without(FullDoc, drop, 1) :
        drop \in {d \in SUBSET (1..Len(FullDoc)) : Cardinality(d) <= MaxMissing}}

Docs ==
    Shortened
      \cup UNION {{InsertAt(d, e, p) : e \in ExtraLines, p \in 0..Len(d)} :
                    d \in Shortened}

---------------------------------------------------------------------------
(* The state machine.                                                      *)

Init ==
    /\ pc = "call"
    /\ result = NoResult
    /\ \/ /\ fn = "parse_line"
          /\ key = <<>>
          /\ arg \in Lines
          /\ nar = <<>>
       \/ /\ fn = "parse_str_no_spaces"
          /\ key \in {K_FooStr, K_Compression, K_Deriver}
          /\ arg \in Texts
          /\ nar = <<>>
       \/ /\ fn = "parse_u64"
          /\ key \in {K_FooSize, K_NarSize}
          /\ arg \in Remainders
          /\ nar = <<>>
       \/ /\ fn = "parse_string"
          /\ key = <<>>
          /\ arg = <<>>
          /\ nar \in Docs

ParseStrNoSpaces ==
    /\ pc = "call"
    /\ fn = "parse_str_no_spaces"
    /\ result' = parse_str_no_spaces(key, arg)
    /\ pc' = "done"
    /\ UNCHANGED <<fn, key, arg, nar>>

ParseU64 ==
    /\ pc = "call"
    /\ fn = "parse_u64"
    /\ result' = parse_u64(key, arg)
    /\ pc' = "done"
    /\ UNCHANGED <<fn, key, arg, nar>>

ParseLine ==
    /\ pc = "call"
    /\ fn = "parse_line"
    /\ result' = parse_line(arg)
    /\ pc' = "done"
    /\ UNCHANGED <<fn, key, arg, nar>>

ParseString ==
    /\ pc = "call"
    /\ fn = "parse_string"
    /\ result' = parse_string(nar)
    /\ pc' = "done"
    /\ UNCHANGED <<fn, key, arg, nar>>

Next ==
    \/ ParseStrNoSpaces
    \/ ParseU64
    \/ ParseLine
    \/ ParseString

Spec == Init /\ [][Next]_vars

---------------------------------------------------------------------------
(* The vocabulary of the specification's field table (spec 4.1), in which  *)
(* the properties below are stated.                                        *)

NoSpaceKeys == {K_Compression, K_FileHash, K_NarHash, K_Deriver}

NumericKeys == {K_FileSize, K_NarSize}

RequiredKeys == FieldKeys \ {K_References}

HasColon(s) == Places(s, ":") # {}

\* the text before the first colon, and the trimmed text after it
KeyOf(s) == Slice(s, 1, Min(Places(s, ":")) - 1)

ValueOf(s) ==
    LET rest == Slice(s, Min(Places(s, ":")) + 1, Len(s))
        keep == {i \in 1..Len(rest) : rest[i] \notin White_Space}
    IN  IF keep = {} THEN <<>> ELSE SubSeq(rest, Min(keep), Max(keep))

IsDecimal(s) == s # <<>> /\ \A i \in 1..Len(s) : s[i] \in Digits

\* the decimal expansion of the number a digit string denotes
StripZeros(s) ==
    LET nz == {i \in 1..Len(s) : s[i] # "0"}
    IN  IF nz = {} THEN Zero ELSE SubSeq(s, Min(nz), Len(s))

\* a non-empty string of decimal digits whose value is at most 2^64 - 1
IsU64Text(s) == IsDecimal(s) /\ ~Greater(StripZeros(s), U64_MAX)

\* the space-separated tokens of s
RECURSIVE Tokens(_)
Tokens(s) ==
    IF Places(s, " ") = {} THEN <<s>>
    ELSE LET i == Min(Places(s, " "))
         IN  <<Slice(s, 1, i - 1)>> \o Tokens(Slice(s, i + 1, Len(s)))

WhitespaceFree(s) == \A i \in 1..Len(s) : s[i] \notin White_Space

\* the trimmed value v is valid for the key k
ValidValue(k, v) ==
    CASE k \in {K_StorePath, K_URL} -> v # <<>>
      [] k \in NoSpaceKeys -> v # <<>> /\ WhitespaceFree(v)
      [] k \in NumericKeys -> IsU64Text(v)
      [] k = K_References ->
            \/ v = <<>>
            \/ \A i \in 1..Len(Tokens(v)) :
                  Tokens(v)[i] # <<>> /\ WhitespaceFree(Tokens(v)[i])
      [] k = K_Sig -> TRUE

\* the variant of NarInfoDatum that belongs to the key k
VariantOf(k) ==
    CASE k = K_StorePath -> "StorePath"
      [] k = K_URL -> "Url"
      [] k = K_Compression -> "Compression"
      [] k = K_FileHash -> "FileHash"
      [] k = K_FileSize -> "FileSize"
      [] k = K_NarHash -> "NarHash"
      [] k = K_NarSize -> "NarSize"
      [] k = K_References -> "References"
      [] k = K_Deriver -> "Deriver"
      [] k = K_Sig -> "Sig"

\* what the valid trimmed value v of the key k decodes to
Decoded(k, v) ==
    CASE k \in NumericKeys -> StripZeros(v)
      [] k = K_References -> IF v = <<>> THEN <<>> ELSE Tokens(v)
      [] OTHER -> v

\* the call of parse_line has returned, on a line "<key>:<value>"
LineDone == pc = "done" /\ fn = "parse_line" /\ HasColon(arg)

\* the call of parse_string has returned
DocDone == pc = "done" /\ fn = "parse_string"

\* the errors the specification gives the record assembler (spec 7)
AtLine(n, e) == [variant |-> "AtLine", line |-> n, error |-> e]

DuplicateField(k, a, b) ==
    [variant |-> "DuplicateField", key |-> k, first_line |-> a, second_line |-> b]

MissingField(ks) == [variant |-> "MissingField", keys |-> ks]

LineWellFormed(l) ==
    HasColon(l) /\ KeyOf(l) \in FieldKeys /\ ValidValue(KeyOf(l), ValueOf(l))

\* the lines of doc that carry the key k
KeyLines(doc, k) == {i \in 1..Len(doc) : HasColon(doc[i]) /\ KeyOf(doc[i]) = k}

WellFormedDoc(doc) ==
    /\ \A i \in 1..Len(doc) : LineWellFormed(doc[i])
    /\ \A k \in RequiredKeys : Cardinality(KeyLines(doc, k)) = 1
    /\ Cardinality(KeyLines(doc, K_References)) <= 1

FieldOf(doc, k) == Decoded(k, ValueOf(doc[Min(KeyLines(doc, k))]))

\* the record of struct NarInfo that a well-formed document denotes
RecordOf(doc) ==
    [storepath |-> FieldOf(doc, K_StorePath),
     url |-> FieldOf(doc, K_URL),
     compression |-> FieldOf(doc, K_Compression),
     file_hash |-> FieldOf(doc, K_FileHash),
     file_size |-> FieldOf(doc, K_FileSize),
     nar_hash |-> FieldOf(doc, K_NarHash),
     nar_size |-> FieldOf(doc, K_NarSize),
     references |-> IF KeyLines(doc, K_References) = {} THEN <<>>
                    ELSE FieldOf(doc, K_References),
     deriver |-> FieldOf(doc, K_Deriver),
     signature |-> FieldOf(doc, K_Sig)]

\* the lines that repeat a required key seen on an earlier line
Repeats(doc) ==
    {b \in 1..Len(doc) :
        /\ HasColon(doc[b])
        /\ KeyOf(doc[b]) \in RequiredKeys
        /\ \E a \in 1..(b - 1) : HasColon(doc[a]) /\ KeyOf(doc[a]) = KeyOf(doc[b])}

\* the lines on which parse_line fails
Failing(doc) == {i \in 1..Len(doc) : parse_line(doc[i]).is = "Err"}

---------------------------------------------------------------------------
(* The properties.                                                         *)

\* C1: for each of the ten keys of the field table and each value valid for
\* the key, parse_line on "<Key>: <value>" returns the datum of that key with
\* the decoded value, and so never fails with LineUnknownKey.
C1_EveryKeyDecodes ==
    (LineDone /\ KeyOf(arg) \in FieldKeys /\ ValidValue(KeyOf(arg), ValueOf(arg)))
        => /\ result.is = "Ok"
           /\ result.v.variant = VariantOf(KeyOf(arg))
           /\ result.v.val = Decoded(KeyOf(arg), ValueOf(arg))

\* C2: on a well-formed document (each required field once, References at
\* most once) parse_string returns the record whose fields are the trimmed
\* input values, references in the order given; it returns no error and does
\* not abort.
C2_WellFormedDocumentYieldsRecord ==
    (DocDone /\ WellFormedDoc(nar)) => result = Ok(RecordOf(nar))

\* C3: when the lines up to b are well formed and line b is the first to
\* repeat a non-list key, first seen at line a, parse_string returns
\* DuplicateField(key, a, b) and no record holding the later value.
C3_DuplicateFieldReported ==
    (DocDone /\ Repeats(nar) # {}
       /\ \A i \in 1..Min(Repeats(nar)) : LineWellFormed(nar[i]))
        => LET b == Min(Repeats(nar))
               k == KeyOf(nar[b])
           IN  result = Err(DuplicateField(k, Min(KeyLines(nar, k)), b))

\* C4: when every line is well formed, no key is repeated and the set M of
\* absent required fields is not empty, parse_string returns MissingField
\* with exactly M; an absent References line is not reported.
C4_EveryMissingFieldReported ==
    (DocDone /\ (\A i \in 1..Len(nar) : LineWellFormed(nar[i]))
       /\ (\A k \in FieldKeys : Cardinality(KeyLines(nar, k)) <= 1)
       /\ {k \in RequiredKeys : KeyLines(nar, k) = {}} # {})
        => result = Err(MissingField({k \in RequiredKeys : KeyLines(nar, k) = {}}))

\* C5: when line k is the first line on which parse_line fails, parse_string
\* returns that line's parser error tagged with the line number k, and no
\* record.
C5_FirstParserErrorReported ==
    (DocDone /\ Failing(nar) # {})
        => LET k == Min(Failing(nar))
           IN  result = Err(AtLine(k, parse_line(nar[k]).v))

\* C6: on a line with no colon parse_line fails with LineCorruptNoColon
\* carrying the whole line unchanged, whatever the line holds.
C6_NoColonIsCorrupt ==
    (pc = "done" /\ fn = "parse_line" /\ ~HasColon(arg))
        => result = Err(LineCorruptNoColon(arg))

\* a line that starts with a recognized key but has no colon was rejected
C6_Witness ==
    /\ pc = "done"
    /\ fn = "parse_line"
    /\ ~HasColon(arg)
    /\ Len(arg) > Len(K_Compression)
    /\ SubSeq(arg, 1, Len(K_Compression)) = K_Compression
    /\ result = Err(LineCorruptNoColon(arg))

\* C7: for each whitespace-free field, a line whose trimmed value holds a
\* space fails with UnexpectedSpace carrying the key and the offset of the
\* first space in the trimmed value; a trimmed value with no space is
\* returned unchanged.
C7_UnexpectedSpaceForEveryTokenField ==
    (LineDone /\ KeyOf(arg) \in NoSpaceKeys)
        => IF Places(ValueOf(arg), " ") # {}
           THEN result = Err(UnexpectedSpace(KeyOf(arg),
                                             Min(Places(ValueOf(arg), " ")) - 1))
           ELSE result.is = "Ok" /\ result.v.val = ValueOf(arg)

\* C8: for FileSize and NarSize the trimmed value decodes to n exactly when
\* it is a non-empty string of decimal digits of value n <= 2^64 - 1; a
\* sign, a leading '+', any other non-digit, the empty value and a value
\* above 2^64 - 1 are rejected.
C8_OnlyDecimalDigitsDecode ==
    (LineDone /\ KeyOf(arg) \in NumericKeys)
        => /\ (result.is = "Ok") <=> IsU64Text(ValueOf(arg))
           /\ IsU64Text(ValueOf(arg)) =>
                 /\ result.v.variant = VariantOf(KeyOf(arg))
                 /\ result.v.val = StripZeros(ValueOf(arg))

\* C9: a numeric value that is not a base-10 unsigned 64-bit integer fails
\* with the invalid-integer error carrying the key, the offending text and a
\* diagnostic that tells a non-digit from overflow.
C9_InvalidIntegerCarriesText ==
    (LineDone /\ KeyOf(arg) \in NumericKeys /\ ~IsU64Text(ValueOf(arg)))
        => /\ result.is = "Err"
           /\ result.v.variant = "InvalidU64"
           /\ result.v.key = KeyOf(arg)
           /\ "text" \in DOMAIN result.v
           /\ result.v.text = ValueOf(arg)
           /\ IsDecimal(ValueOf(arg)) => result.v.error.kind = "PosOverflow"
           /\ (ValueOf(arg) # <<>> /\ ValueOf(arg)[1] \notin Digits)
                 => result.v.error.kind = "InvalidDigit"

\* C10: a Compression token parse_line returns holds no whitespace of any
\* kind: a value with internal whitespace fails with UnexpectedSpace at the
\* offset of the first whitespace character.
C10_CompressionTokenWhitespaceFree ==
    (LineDone /\ KeyOf(arg) = K_Compression)
        => /\ (result.is = "Ok" /\ result.v.variant = "Compression")
                 => WhitespaceFree(result.v.val)
           /\ ~WhitespaceFree(ValueOf(arg))
                 => LET ws == {i \in 1..Len(ValueOf(arg)) :
                                  ValueOf(arg)[i] \in White_Space}
                    IN  result = Err(UnexpectedSpace(K_Compression, Min(ws) - 1))

===========================================================================
